---- MODULE Spec2Model ----
(***************************************************************************)
(* A model of src/src/ppk2_api.py: the PPK2_API object (Power Profiler Kit *)
(* II serial API), its command methods, its metadata loader and its        *)
(* streaming sample decoder average_of_sampling_period.                    *)
(*                                                                         *)
(* Python integers are unbounded; TLC's are 32 bits wide.  A Python int is *)
(* therefore held as a pair <<hi, lo>> that stands for hi * 2^16 + lo with *)
(* 0 <= lo < 2^16 and hi any integer (negative for a negative int), and    *)
(* the bit operations are those of Python's infinite two's complement.     *)
(* Python's None is the empty tuple <<>>, a constant v of the table is the *)
(* tuple <<v>>, and a float computed from them is an exact fraction.       *)
(***************************************************************************)
EXTENDS Integers, Sequences, FiniteSets, TLC

\* ------------------------------------------------------------- bounds
\* Longest chunk and most decoder calls of the API specification Spec.
MaxChunk == 4
MaxCalls == 1
\* Longest chunk and most decoder calls of the stream specification.
MaxStreamChunk == 8
MaxStreamCalls == 3
\* Voltages (mV) commanded in the model.
Voltages == {800, 3000}
\* Voltages (mV) commanded in the regulator specification: from below the
\* lower limit to above the upper one, every value near a limit or near a
\* multiple of 256 and every 16th value between, and values far above.
NegativeVoltages == 20
HighestVoltage == 5300
AllVoltages ==
    {v \in (-NegativeVoltages)..HighestVoltage :
        \/ v % 16 = 0
        \/ v % 256 \in {1, 31, 32, 33, 255}
        \/ v < 0
        \/ v \in 790..810
        \/ v \in 4990..5010}
    \cup {65535, 65536, 70000, 1000000}
\* The ranges and post-scaling ADC values get_adc_result is called with,
\* and the most conversions the history of the conversion specification holds.
Ranges == {0, 5}
AdcValues == {16384}
MaxConverted == 3

\* The bytes the device sends, from position 0 on.  Stream 1: bytes 1..63 in
\* turn, all different over the lengths read; every 4-byte window of it has
\* the range field 0 or 4.  Stream 2: samples of range 0 and samples of
\* range 7 in turn.
Streams == {1, 2}
StreamByte(s, i) ==
    IF s = 1 THEN (i % 63) + 1
    ELSE <<0, 0, 0, 0, 0, 192, 1, 0>>[(i % 8) + 1]
\* The n bytes of stream s from position p on.
Read(s, p, n) == [i \in 1..n |-> StreamByte(s, p + i - 1)]

\* ------------------------------------------------- Python integers
W16 == 256 * 256

Min(a, b) == IF a <= b THEN a ELSE b
Max(a, b) == IF a >= b THEN a ELSE b

\* a & b on integers of any sign (infinite two's complement).
RECURSIVE BitAnd(_, _)
BitAnd(a, b) ==
    IF a = 0 \/ b = 0 THEN 0
    ELSE IF a = -1 THEN b
    ELSE IF b = -1 THEN a
    ELSE (a % 2) * (b % 2) + 2 * BitAnd(a \div 2, b \div 2)

ToPy(n) == <<n \div W16, n % W16>>
FromPy(w) == w[1] * W16 + w[2]
PyAnd(x, y) == <<BitAnd(x[1], y[1]), BitAnd(x[2], y[2])>>
PyAdd(x, y) == <<x[1] + y[1] + ((x[2] + y[2]) \div W16), (x[2] + y[2]) % W16>>
PySub(x, y) == <<x[1] - y[1] + ((x[2] - y[2]) \div W16), (x[2] - y[2]) % W16>>

\* x << k
PyShl(x, k) ==
    IF k < 16
    THEN <<x[1] * 2 ^ k + ((x[2] * 2 ^ k) \div W16), (x[2] * 2 ^ k) % W16>>
    ELSE <<(x[1] * W16 + x[2]) * 2 ^ (k - 16), 0>>

\* x >> k (arithmetic: floors)
PyShr(x, k) ==
    IF k < 16
    THEN <<x[1] \div 2 ^ k, (x[2] \div 2 ^ k) + (x[1] % 2 ^ k) * 2 ^ (16 - k)>>
    ELSE ToPy(x[1] \div 2 ^ (k - 16))

\* str(n) of a one-digit n
Str(n) == <<"0", "1", "2", "3", "4", "5", "6", "7", "8", "9">>[n + 1]

\* s[a:b], Python's slice of a sequence (indices from 0, negative ones
\* count from the end, out-of-range ones are clipped).
Slice(s, a, b) ==
    LET n == Len(s)
        lo == IF a < 0 THEN Max(a + n, 0) ELSE Min(a, n)
        hi == IF b < 0 THEN Max(b + n, 0) ELSE Min(b, n)
    IN SubSeq(s, lo + 1, hi)

\* The concatenation of a sequence of sequences.
RECURSIVE Flatten(_)
Flatten(ss) == IF ss = <<>> THEN <<>> ELSE Head(ss) \o Flatten(Tail(ss))

\* --------------------------------------------------- Python floats
\* A float is held as the exact fraction <<n, d>> it stands for, d > 0, in
\* lowest terms; the operations are exact (the rounding of the 64-bit
\* float is left out).
Abs(a) == IF a < 0 THEN -a ELSE a

RECURSIVE GCD(_, _)
GCD(a, b) == IF b = 0 THEN Abs(a) ELSE GCD(Abs(b), Abs(a) % Abs(b))

Frac(n, d) ==
    LET g == GCD(n, d)
        s == IF d < 0 THEN -1 ELSE 1
    IN <<s * (n \div g), s * (d \div g)>>

FMul(x, y) ==
    LET a == Frac(x[1], y[2])
        b == Frac(y[1], x[2])
    IN Frac(a[1] * b[1], a[2] * b[2])
FDiv(x, y) == FMul(x, Frac(y[2], y[1]))
FAdd(x, y) ==
    LET g == GCD(x[2], y[2])
    IN Frac(x[1] * (y[2] \div g) + y[1] * (x[2] \div g), (x[2] \div g) * y[2])
FSub(x, y) == FAdd(x, <<-y[1], y[2]>>)
\* float(n) of an integer n
Float(n) == <<n, 1>>
\* x / n and x * n of a float x and an integer n
FDivInt(x, n) == FDiv(x, Float(n))
FMulInt(x, n) == FMul(x, Float(n))

\* ----------------------------------------------------- PPK2_Command
AVERAGE_START == 6
AVERAGE_STOP == 7
NO_OP == 0
TRIGGER_SET == 1
AVG_NUM_SET == 2
DEVICE_RUNNING_SET == 12
REGULATOR_SET == 13
SET_POWER_MODE == 17
GET_META_DATA == 25

\* ------------------------------------------------------- PPK2_Modes
AMPERE_MODE == "AMPERE_MODE"
SOURCE_MODE == "SOURCE_MODE"

None == <<>>

\* ------------------------------------------------ PPK2_API.__init__
RangeKeys == {"0", "1", "2", "3", "4"}
PerRange == {"R", "GS", "GI", "O", "S", "I", "UG"}
Scalars == {"Calibrated", "HW", "IA"}

InitModifiers ==
    [k \in PerRange \cup Scalars |->
        IF k \in PerRange THEN [r \in RangeKeys |-> None] ELSE None]

vdd_low == 800
vdd_high == 5000
sample_size == 4
\* The multiplier of a 16-bit converter.
adc_mult_16_bit == FDiv(Frac(18, 10), Float(65536))

adc_mult == FDiv(Frac(18, 10), Float(163840))

VARIABLES
    modifiers,    \* self.modifiers
    current_vdd,  \* self.current_vdd
    mode,         \* self.mode ("None" until a mode is chosen)
    remainder,    \* self.remainder: [sequence, len]
    call,         \* the most recent API call: its arguments, outcome, writes
    commanded,    \* history: the mV of the last set_source_voltage (None if none)
    supplied,     \* history: the bytes of the chunks of the decoder calls that returned
    decoded,      \* history: the byte groups those calls converted, in order
    calls,        \* history: the number of decoder calls made
    stream,       \* the device: which stream it sends
    word,         \* the word handed to _handle_raw_data when it is called alone
    sent,         \* the device: the number of bytes read from it so far
    rolling_avg,  \* self.rolling_avg (<<>> while the attribute is not set)
    rolling_avg4, \* self.rolling_avg4 (<<>> while the attribute is not set)
    prev_rolling_avg,   \* self.prev_rolling_avg
    prev_rolling_avg4,  \* self.prev_rolling_avg4
    prev_range,         \* self.prev_range
    converted     \* history: the conversions that returned, each with its
                  \* inputs, its value and the mutable fields it was made in

\* The fields get_adc_result assigns, and the prev_ fields nothing assigns.
diag == <<rolling_avg, rolling_avg4>>
prev == <<prev_rolling_avg, prev_rolling_avg4, prev_range>>

vars == <<modifiers, current_vdd, mode, remainder, call, commanded,
          supplied, decoded, calls, stream, sent, word, diag, prev, converted>>

\* ------------------------------------------------------ bitfields
twos_comp(val) ==
    IF PyAnd(val, PyShl(ToPy(1), 32 - 1)) # ToPy(0)
    THEN PySub(val, PyShl(ToPy(1), 32))
    ELSE val

generate_mask(bits, pos) ==
    [mask |-> twos_comp(PyShl(ToPy(2 ^ bits - 1), pos)), pos |-> pos]

MEAS_ADC == generate_mask(14, 0)
MEAS_RANGE == generate_mask(3, 14)
MEAS_LOGIC == generate_mask(8, 24)

\* The mask applied after the shift instead of before it.
get_masked_value_shift_first(value, meas) ==
    PyAnd(PyShr(value, meas.pos), meas.mask)

get_masked_value(value, meas) == PyShr(PyAnd(value, meas.mask), meas.pos)

\* The bytes taken most significant first.
RECURSIVE digital_to_analog_big_endian(_)
digital_to_analog_big_endian(adc_value) ==
    IF adc_value = <<>> THEN ToPy(0)
    ELSE PyAdd(ToPy(adc_value[Len(adc_value)]),
               PyShl(digital_to_analog_big_endian(
                         SubSeq(adc_value, 1, Len(adc_value) - 1)), 8))

\* int.from_bytes(adc_value, byteorder="little", signed=False)
RECURSIVE digital_to_analog(_)
digital_to_analog(adc_value) ==
    IF adc_value = <<>> THEN ToPy(0)
    ELSE PyAdd(ToPy(Head(adc_value)), PyShl(digital_to_analog(Tail(adc_value)), 8))

\* The exception get_adc_result raises, or "none" (the key lookups and the
\* arithmetic on the constants in the order Python evaluates them), and the
\* value adc it returns and assigns to the rolling-average fields (None if
\* it raises).
get_adc_result(current_range, adc_value, mods, vdd) ==
    LET key == Str(current_range)
        O == mods["O"][key]
        R == mods["R"][key]
        err == IF key \notin DOMAIN mods["O"] THEN "KeyError"
               ELSE IF O = None \/ R = None THEN "TypeError"
               ELSE IF R = <<0>> THEN "ZeroDivisionError"
               ELSE IF \E k \in {"UG", "GS", "GI", "S", "I"} : mods[k][key] = None
                    THEN "TypeError"
               ELSE "none"
        M(k) == Float(mods[k][key][1])
        result_without_gain ==
            FMul(FSub(Float(adc_value), M("O")), FDiv(adc_mult, M("R")))
        adc ==
            FMul(M("UG"),
                 FAdd(FMul(result_without_gain,
                           FAdd(FMul(M("GS"), result_without_gain), M("GI"))),
                      FAdd(FAdd(M("S"), FDivInt(Float(vdd), 1000)), M("I"))))
    IN [err |-> err, vdd |-> vdd, adc |-> IF err = "none" THEN adc ELSE None]

handle_raw_data(adc_value, mods, vdd) ==
    LET field == FromPy(get_masked_value(adc_value, MEAS_RANGE))
        current_measurement_range == Min(field, 5)
        adc_result == FromPy(get_masked_value(adc_value, MEAS_ADC)) * 4
        bits == FromPy(get_masked_value(adc_value, MEAS_LOGIC))
        res == get_adc_result(current_measurement_range, adc_result, mods, vdd)
        analog_value == IF res.err = "none" THEN FMulInt(res.adc, 10 ^ 6) ELSE None
    IN [word |-> adc_value, field |-> field,
        range |-> current_measurement_range,
        adc |-> adc_result, bits |-> bits, vdd |-> res.vdd, err |-> res.err,
        result |-> res.adc, analog_value |-> analog_value]

\* The history entry of a conversion that returned: what get_adc_result
\* was given and read (range, adc_value, the constants of the range in the
\* table, regulator voltage), what it returned, and the mutable fields of
\* the object it was called on.
Conversion(conv, mods, md, rem, avg) ==
    [range |-> conv.range, adc_value |-> conv.adc,
     mods |-> [k \in PerRange |-> mods[k][Str(conv.range)]], vdd |-> conv.vdd,
     value |-> conv.result, mode |-> md, remainder |-> rem, rolling_avg |-> avg]

\* The value returned smoothed with the rolling average of the object.
AdcResult_smoothed(current_range, adc_value, mods, vdd) ==
    LET res == get_adc_result(current_range, adc_value, mods, vdd)
    IN [range |-> current_range, adc |-> adc_value, vdd |-> res.vdd,
        err |-> res.err,
        result |-> IF res.err = "none" /\ rolling_avg # <<>>
                   THEN FDivInt(FAdd(res.adc, rolling_avg), 2)
                   ELSE res.adc]

\* The result of get_adc_result called by itself, in the shape of a
\* conversion of _handle_raw_data.
AdcResult(current_range, adc_value, mods, vdd) ==
    LET res == get_adc_result(current_range, adc_value, mods, vdd)
    IN [range |-> current_range, adc |-> adc_value, vdd |-> res.vdd,
        err |-> res.err, result |-> res.adc]

\* get_adc_result assigning rolling_avg only.
GetAdcResult_one_field(ranges, values, maxConverted) ==
    /\ Cardinality(converted) < maxConverted
    /\ \E current_range \in ranges, adc_value \in values :
        \E conv \in {AdcResult(current_range, adc_value, modifiers, current_vdd)} :
           /\ call' = [op |-> "get_adc_result", conv |-> conv, written |-> <<>>,
                       outcome |-> IF conv.err = "none" THEN "returned" ELSE conv.err]
           /\ rolling_avg' = IF conv.err = "none" THEN conv.result ELSE rolling_avg
           /\ converted' =
                 IF conv.err = "none"
                 THEN converted \cup
                        {Conversion(conv, modifiers, mode, remainder, rolling_avg)}
                 ELSE converted
           /\ UNCHANGED <<modifiers, current_vdd, mode, remainder, commanded, rolling_avg4,
                          supplied, decoded, calls, stream, sent, word, prev>>

\* get_adc_result called by the user of the API, while the history holds
\* fewer than maxConverted conversions.
GetAdcResult(ranges, values, maxConverted) ==
    /\ Cardinality(converted) < maxConverted
    /\ \E current_range \in ranges, adc_value \in values :
        \E conv \in {AdcResult(current_range, adc_value, modifiers, current_vdd)} :
           /\ call' = [op |-> "get_adc_result", conv |-> conv, written |-> <<>>,
                       outcome |-> IF conv.err = "none" THEN "returned" ELSE conv.err]
           /\ rolling_avg' = IF conv.err = "none" THEN conv.result ELSE rolling_avg
           /\ rolling_avg4' = IF conv.err = "none" THEN conv.result ELSE rolling_avg4
           /\ converted' =
                 IF conv.err = "none"
                 THEN converted \cup
                        {Conversion(conv, modifiers, mode, remainder, rolling_avg)}
                 ELSE converted
           /\ UNCHANGED <<modifiers, current_vdd, mode, remainder, commanded,
                          supplied, decoded, calls, stream, sent, word, prev>>

\* ------------------------------------- average_of_sampling_period
\* The while loop: the 4-byte groups of buf it reads from offset on, and
\* the offset it ends with.
RECURSIVE SamplingLoop(_, _)
SamplingLoop(buf, offset) ==
    IF offset <= Len(buf) - sample_size
    THEN LET rest == SamplingLoop(buf, offset + sample_size)
         IN [readings |-> <<Slice(buf, offset, offset + sample_size)>> \o rest.readings,
             offset |-> rest.offset]
    ELSE [readings |-> <<>>, offset |-> offset]

\* The index of the first conversion that raises, 0 if none does.
FirstError(convs) ==
    LET bad == {i \in 1..Len(convs) : convs[i].err # "none"}
    IN IF bad = {} THEN 0 ELSE CHOOSE i \in bad : \A j \in bad : i <= j

\* first_reading converted only when it holds a whole sample.
Readings_whole_samples(rem, buf) ==
    LET offset == rem.len
        first_reading ==
            Slice(rem.sequence \o Slice(buf, 0, sample_size - offset), 0, 4)
        loop == SamplingLoop(buf, sample_size - offset)
    IN [readings |-> (IF Len(first_reading) = sample_size
                      THEN <<first_reading>> ELSE <<>>) \o loop.readings,
        offset |-> loop.offset]

\* The byte groups one call reads, in order, and the offset it ends with:
\* first_reading, then the groups of the while loop.
Readings(rem, buf) ==
    LET offset == rem.len
        first_reading ==
            Slice(rem.sequence \o Slice(buf, 0, sample_size - offset), 0, 4)
        loop == SamplingLoop(buf, sample_size - offset)
    IN [readings |-> <<first_reading>> \o loop.readings, offset |-> loop.offset]

\* measurement_avg: the sum of the values of the conversions.
RECURSIVE MeasurementSum(_)
MeasurementSum(convs) ==
    IF convs = <<>> THEN Float(0)
    ELSE FAdd(Head(convs).analog_value, MeasurementSum(Tail(convs)))

\* The remainder written before the conversions are made.
average_of_sampling_period_remainder_first(rem, buf, mods, vdd) ==
    LET read == Readings(rem, buf)
        convs == [i \in 1..Len(read.readings) |->
                     handle_raw_data(digital_to_analog(read.readings[i]), mods, vdd)]
        bad == FirstError(convs)
        written == [sequence |-> Slice(buf, read.offset, Len(buf)),
                    len |-> Len(buf) - read.offset]
    IN IF bad # 0
       THEN [outcome |-> convs[bad].err,
             readings |-> SubSeq(read.readings, 1, bad),
             convs |-> SubSeq(convs, 1, bad),
             done |-> bad - 1,
             num_samples |-> bad - 1,
             mean |-> None,
             remainder |-> written]
       ELSE [outcome |-> "returned",
             readings |-> read.readings,
             convs |-> convs,
             done |-> Len(convs),
             num_samples |-> Len(convs),
             mean |-> FDivInt(MeasurementSum(convs), Len(convs)),
             remainder |-> written]

\* One call on the remainder rem: the byte groups read, the conversions
\* made, the outcome, num_samples, the mean returned and the remainder the
\* call leaves.  A conversion that raises ends the call before the
\* remainder is written; `done` is the number of conversions that returned.
average_of_sampling_period(rem, buf, mods, vdd) ==
    LET read == Readings(rem, buf)
        convs == [i \in 1..Len(read.readings) |->
                     handle_raw_data(digital_to_analog(read.readings[i]), mods, vdd)]
        bad == FirstError(convs)
        num_samples == Len(read.readings)
    IN IF bad # 0
       THEN [outcome |-> convs[bad].err,
             readings |-> SubSeq(read.readings, 1, bad),
             convs |-> SubSeq(convs, 1, bad),
             done |-> bad - 1,
             num_samples |-> bad - 1,
             mean |-> None,
             remainder |-> rem]
       ELSE IF num_samples = 0
       THEN [outcome |-> "ZeroDivisionError",
             readings |-> read.readings,
             convs |-> convs,
             done |-> 0,
             num_samples |-> 0,
             mean |-> None,
             remainder |-> rem]
       ELSE [outcome |-> "returned",
             readings |-> read.readings,
             convs |-> convs,
             done |-> num_samples,
             num_samples |-> num_samples,
             mean |-> FDivInt(MeasurementSum(convs), num_samples),
             remainder |-> [sequence |-> Slice(buf, read.offset, Len(buf)),
                            len |-> Len(buf) - read.offset]]

\* A chunk of at most maxLen bytes is read from the device (get_data) and
\* handed to average_of_sampling_period.
AverageOfSamplingPeriod(maxLen, maxCalls) ==
    /\ calls < maxCalls
    /\ \E n \in 0..maxLen :
         \E buf \in {Read(stream, sent, n)} :
         \E res \in {average_of_sampling_period(remainder, buf, modifiers, current_vdd)} :
            /\ remainder' = res.remainder
            /\ call' = [op |-> "average_of_sampling_period", buf |-> buf,
                        rem0 |-> remainder, outcome |-> res.outcome,
                        readings |-> res.readings, convs |-> res.convs,
                        num_samples |-> res.num_samples, mean |-> res.mean,
                        written |-> <<>>]
            /\ rolling_avg' = IF res.done = 0 THEN rolling_avg
                              ELSE res.convs[res.done].result
            /\ rolling_avg4' = IF res.done = 0 THEN rolling_avg4
                               ELSE res.convs[res.done].result
            /\ converted' = converted \cup
                  {Conversion(res.convs[i], modifiers, mode, remainder,
                              IF i = 1 THEN rolling_avg ELSE res.convs[i - 1].result) :
                      i \in 1..res.done}
            /\ supplied' = IF res.outcome = "returned" THEN supplied \o buf ELSE supplied
            /\ decoded' = IF res.outcome = "returned"
                          THEN decoded \o res.readings ELSE decoded
            /\ sent' = sent + n
    /\ calls' = calls + 1
    /\ UNCHANGED <<modifiers, current_vdd, mode, commanded, stream, word, prev>>

\* ------------------------------------------------------ serial port
\* struct.pack("B" * len(cmd_tuple), *cmd_tuple): one byte per value, a
\* struct.error for a value that is not a byte.
pack_struct(cmd_tuple) ==
    IF \A i \in 1..Len(cmd_tuple) : cmd_tuple[i] \in 0..255
    THEN [err |-> "none", bytes |-> cmd_tuple]
    ELSE [err |-> "struct.error", bytes |-> <<>>]

\* What self.ser.write receives: the packed commands written, in order.
write_serial(cmd_tuple) ==
    LET cmd_packed == pack_struct(cmd_tuple)
    IN [err |-> cmd_packed.err,
        written |-> IF cmd_packed.err = "none" THEN <<cmd_packed.bytes>> ELSE <<>>]

\* ------------------------------------------------------- metadata
\* The constants of the device's metadata text (every range alike).
MetaValue(k) == IF k \in {"R", "GI", "UG"} THEN 1 ELSE 0

\* The rows of a text: a function from the row's name to its value.
RowNames(keys) == {k \o r : k \in keys, r \in RangeKeys}
RowKey(name) == CHOOSE k \in PerRange \cup Scalars :
                    name = k \/ \E r \in RangeKeys : name = k \o r
Rows(names) == [name \in names |-> MetaValue(RowKey(name))]

\* One serial read: nothing, or a piece of text (its "KEY: value" rows and
\* whether it holds "END").
EmptyRead == [empty |-> TRUE, rows |-> Rows({}), end |-> FALSE]
\* the whole metadata block in one read
FullText == [empty |-> FALSE, rows |-> Rows(RowNames(PerRange) \cup Scalars), end |-> TRUE]
\* the block cut in two by the read boundary
HeadText == [empty |-> FALSE, rows |-> Rows(RowNames({"R", "GS", "GI"})), end |-> FALSE]
TailText == [empty |-> FALSE,
             rows |-> Rows(RowNames({"O", "S", "I", "UG"}) \cup Scalars), end |-> TRUE]
\* a block that lacks the row R4
SparseText == [empty |-> FALSE,
               rows |-> Rows((RowNames(PerRange) \ {"R4"}) \cup Scalars), end |-> TRUE]
EndTexts == {FullText, TailText, SparseText}

\* The reads of one get_modifiers call: `pre` before read k, text t at read
\* k, nothing after it (k = 6: no read holds "END").
ReadScript(k, t, pre) ==
    [i \in 1..5 |-> IF i < k THEN pre ELSE IF i = k THEN t ELSE EmptyRead]
\* The scripts of the API specification: the block in the first read, whole
\* or sparse, in the last read, cut in two, and no "END" at all.
ReadScripts ==
    {ReadScript(1, FullText, EmptyRead), ReadScript(1, SparseText, EmptyRead),
     ReadScript(5, FullText, EmptyRead), ReadScript(2, TailText, HeadText),
     ReadScript(6, FullText, HeadText)}
\* The scripts of the stream specification: a block in the first read.
StreamScripts == {ReadScript(1, t, EmptyRead) : t \in {FullText, SparseText}}

\* The scripts of the metadata specification: "END" in any one read or in
\* none.
MetadataScripts ==
    {ReadScript(k, t, pre) : k \in 1..6, t \in EndTexts, pre \in {EmptyRead, HeadText}}
\* The script of the conversion specification: the whole block at once.
ConvertScripts == {ReadScript(1, FullText, EmptyRead)}

\* The reads up to the first that holds "END" put together.
read_metadata_accumulated(reads) ==
    LET hits == {i \in 1..5 : ~reads[i].empty /\ reads[i].end}
        first == CHOOSE i \in hits : \A j \in hits : i <= j
        names == UNION {DOMAIN reads[i].rows : i \in 1..first}
        rows == [name \in names |->
                    LET j == CHOOSE i \in 1..first : name \in DOMAIN reads[i].rows
                    IN reads[j].rows[name]]
    IN IF hits = {} THEN [metadata |-> None, nreads |-> 5]
       ELSE [metadata |-> <<[empty |-> FALSE, rows |-> rows, end |-> TRUE]>>,
             nreads |-> first]

\* The read _read_metadata returns and the number of reads it makes; None
\* (the loop ends without a return) when none of the 5 reads holds "END".
read_metadata(reads) ==
    LET hits == {i \in 1..5 : ~reads[i].empty /\ reads[i].end}
        first == CHOOSE i \in hits : \A j \in hits : i <= j
    IN IF hits = {} THEN [metadata |-> None, nreads |-> 5]
       ELSE [metadata |-> <<reads[first]>>, nreads |-> first]

\* modifiers after _parse_metadata(text): a row named key sets the scalar,
\* a row named key + str(ind) sets modifiers[key][str(ind)].
parse_metadata(mods, text) ==
    [key \in DOMAIN mods |->
        IF key \in DOMAIN text.rows THEN <<text.rows[key]>>
        ELSE IF key \in PerRange
             THEN [ind \in RangeKeys |->
                     IF (key \o ind) \in DOMAIN text.rows
                     THEN <<text.rows[key \o ind]>>
                     ELSE mods[key][ind]]
             ELSE mods[key]]

GetModifiers(scripts) ==
    \E reads \in scripts :
        \E w \in {write_serial(<<GET_META_DATA>>)}, got \in {read_metadata(reads)} :
           /\ modifiers' = IF got.metadata = None THEN modifiers
                           ELSE parse_metadata(modifiers, got.metadata[1])
           /\ call' = [op |-> "get_modifiers", written |-> w.written,
                       reads |-> reads, nreads |-> got.nreads,
                       outcome |-> IF got.metadata = None
                                   THEN "AttributeError" ELSE "returned"]
           /\ UNCHANGED <<current_vdd, mode, remainder, commanded,
                          supplied, decoded, calls, stream, sent, word, diag, prev, converted>>

\* ------------------------------------------------------- commands
\* The conversion without the upper limit.
convert_source_voltage_no_vdd_high(mV) ==
    LET clamped == Max(mV, vdd_low)
        diff_to_baseline == clamped - vdd_low + 32
    IN <<3 + (diff_to_baseline \div 256), diff_to_baseline % 256>>

\* (b_1, b_2) of the REGULATOR_SET command for mV.  int(x / 256) of a
\* non-negative x is its floor.
convert_source_voltage(mV) ==
    LET clamped == Min(Max(mV, vdd_low), vdd_high)
        offset == 32
        diff_to_baseline == clamped - vdd_low + offset
        base_b_1 == 3
        base_b_2 == 0
        ratio == diff_to_baseline \div 256
        rem == diff_to_baseline % 256
    IN <<base_b_1 + ratio, base_b_2 + rem>>

\* A call that only writes one command.
Command(op, arg, cmd_tuple) ==
    LET w == write_serial(cmd_tuple)
    IN call' = [op |-> op, arg |-> arg, written |-> w.written,
                outcome |-> IF w.err = "none" THEN "returned" ELSE w.err]

StartMeasuring ==
    /\ Command("start_measuring", None, <<AVERAGE_START>>)
    /\ UNCHANGED <<modifiers, current_vdd, mode, remainder, commanded,
                   supplied, decoded, calls, stream, sent, word, diag, prev, converted>>

StopMeasuring ==
    /\ Command("stop_measuring", None, <<AVERAGE_STOP>>)
    /\ UNCHANGED <<modifiers, current_vdd, mode, remainder, commanded,
                   supplied, decoded, calls, stream, sent, word, diag, prev, converted>>

\* self.current_vdd is not assigned (the assignment is commented out).
SetSourceVoltage(voltages) ==
    \E mV \in voltages :
        LET b == convert_source_voltage(mV)
        IN /\ Command("set_source_voltage", <<mV>>, <<REGULATOR_SET, b[1], b[2]>>)
           /\ commanded' = <<mV>>
           /\ UNCHANGED <<modifiers, current_vdd, mode, remainder,
                          supplied, decoded, calls, stream, sent, word, diag, prev, converted>>

ToggleDUTPower ==
    \E state \in {"ON", "OFF", "on"} :
        /\ IF state = "ON"
           THEN Command("toggle_DUT_power", <<state>>, <<DEVICE_RUNNING_SET, TRIGGER_SET>>)
           ELSE IF state = "OFF"
           THEN Command("toggle_DUT_power", <<state>>, <<DEVICE_RUNNING_SET, NO_OP>>)
           ELSE call' = [op |-> "toggle_DUT_power", arg |-> <<state>>,
                         written |-> <<>>, outcome |-> "returned"]
        /\ UNCHANGED <<modifiers, current_vdd, mode, remainder, commanded,
                       supplied, decoded, calls, stream, sent, word, diag, prev, converted>>

UseAmpereMeter ==
    /\ mode' = AMPERE_MODE
    /\ Command("use_ampere_meter", None, <<SET_POWER_MODE, TRIGGER_SET>>)
    /\ UNCHANGED <<modifiers, current_vdd, remainder, commanded,
                   supplied, decoded, calls, stream, sent, word, diag, prev, converted>>

\* use_source_meter recording the ampere mode.
UseSourceMeter_ampere_mode ==
    /\ mode' = AMPERE_MODE
    /\ Command("use_source_meter", None, <<SET_POWER_MODE, AVG_NUM_SET>>)
    /\ UNCHANGED <<modifiers, current_vdd, remainder, commanded,
                   supplied, decoded, calls, stream, sent, word, diag, prev, converted>>

UseSourceMeter ==
    /\ mode' = SOURCE_MODE
    /\ Command("use_source_meter", None, <<SET_POWER_MODE, AVG_NUM_SET>>)
    /\ UNCHANGED <<modifiers, current_vdd, remainder, commanded,
                   supplied, decoded, calls, stream, sent, word, diag, prev, converted>>

\* ------------------------------------------- _handle_raw_data alone
\* A 32-bit word with the given fields (spare: bits 17..23, in no field).
Word(rng, raw, logic, spare) ==
    PyAdd(PyAdd(PyShl(ToPy(logic), 24), PyShl(ToPy(spare), 17)),
          PyAdd(PyShl(ToPy(rng), 14), ToPy(raw)))
Words ==
    {Word(rng, raw, logic, spare) :
        rng \in 0..7, raw \in {0, 1, 100, 4096, 16383},
        logic \in {0, 127, 128, 171, 255}, spare \in {0, 127}}

HandleRawData ==
    \E conv \in {handle_raw_data(word, modifiers, current_vdd)} :
        /\ call' = [op |-> "_handle_raw_data", conv |-> conv, written |-> <<>>,
                    outcome |-> IF conv.err = "none" THEN "returned" ELSE conv.err]
        /\ rolling_avg' = IF conv.err = "none" THEN conv.result ELSE rolling_avg
        /\ rolling_avg4' = IF conv.err = "none" THEN conv.result ELSE rolling_avg4
        /\ converted' =
              IF conv.err = "none"
              THEN converted \cup
                     {Conversion(conv, modifiers, mode, remainder, rolling_avg)}
              ELSE converted
        /\ UNCHANGED <<modifiers, current_vdd, mode, remainder, commanded,
                       supplied, decoded, calls, stream, sent, word, prev>>

\* ------------------------------------------------- specifications
\* The object __init__ leaves.
Constructed ==
    /\ modifiers = InitModifiers
    /\ current_vdd = 0
    /\ mode = "None"
    /\ remainder = [sequence |-> <<>>, len |-> 0]
    /\ call = [op |-> "__init__", written |-> <<>>, outcome |-> "returned"]
    /\ commanded = None
    /\ supplied = <<>>
    /\ decoded = <<>>
    /\ calls = 0
    /\ sent = 0
    /\ rolling_avg = <<>>
    /\ rolling_avg4 = <<>>
    /\ prev_rolling_avg = None
    /\ prev_rolling_avg4 = None
    /\ prev_range = None
    /\ converted = {}

Init ==
    /\ Constructed
    /\ stream \in Streams
    /\ word = ToPy(0)

\* The API: the metadata, command and decoding methods, in any order.
Next ==
    \/ GetModifiers(ReadScripts)
    \/ StartMeasuring
    \/ StopMeasuring
    \/ SetSourceVoltage(Voltages)
    \/ ToggleDUTPower
    \/ UseAmpereMeter
    \/ UseSourceMeter
    \/ AverageOfSamplingPeriod(MaxChunk, MaxCalls)

Spec == Init /\ [][Next]_vars

\* The stream decoder: metadata loads and decoder calls on longer chunks.
NextStream ==
    \/ GetModifiers(StreamScripts)
    \/ AverageOfSamplingPeriod(MaxStreamChunk, MaxStreamCalls)

SpecStream == Init /\ [][NextStream]_vars

\* The bitfield decoder: metadata loads and conversions of one word, any of
\* Words.
InitDecode ==
    /\ Constructed
    /\ stream = 1
    /\ word \in Words

NextDecode ==
    \/ GetModifiers(StreamScripts)
    \/ HandleRawData

SpecDecode == InitDecode /\ [][NextDecode]_vars

InitConvert ==
    /\ Constructed
    /\ stream = 1
    /\ word = ToPy(0)

\* The metadata loader: get_modifiers on every script of reads.
NextMetadata == GetModifiers(MetadataScripts)

SpecMetadata == Init /\ [][NextMetadata]_vars

\* The regulator: set_source_voltage with any voltage.
NextVoltage == SetSourceVoltage(AllVoltages)

SpecVoltage == Init /\ [][NextVoltage]_vars

\* The converter: get_adc_result called directly, between metadata loads,
\* mode changes and decoder calls.
NextConvert ==
    \/ GetModifiers(ConvertScripts)
    \/ UseAmpereMeter
    \/ UseSourceMeter
    \/ AverageOfSamplingPeriod(MaxChunk, MaxCalls)
    \/ GetAdcResult(Ranges, AdcValues, MaxConverted)

SpecConvert == InitConvert /\ [][NextConvert]_vars

\* ------------------------------------------------------------ claims
IsDecode == call.op = "average_of_sampling_period"
Returned == call.outcome = "returned"
\* Every per-range constant of the table is populated.
Populated(mods) == \A k \in PerRange : \A r \in RangeKeys : mods[k][r] # None
\* The remainder carried into the most recent decoder call held as many
\* bytes as its length field said, between 0 and 3.
CarriedWellFormed ==
    /\ call.rem0.len = Len(call.rem0.sequence)
    /\ call.rem0.len \in 0..3

\* C1 to C6 are stated for the object whose table is fully populated.

\* C1: the bytes of all groups decoded so far, in order, followed by the
\* stored remainder bytes, are the concatenation of the chunks supplied so
\* far (no byte lost, duplicated or reordered).
C1_Lossless ==
    Populated(modifiers) => Flatten(decoded) \o remainder.sequence = supplied

\* C2: the groups decoded from a byte string are those decoded from the same
\* string supplied as one whole chunk, however it was split into chunks;
\* stated for the strings of two words (8 bytes), as in the claim's example.
C2_SplitIndependent ==
    (Populated(modifiers) /\ decoded # <<>> /\ Len(supplied) = 2 * sample_size) =>
        decoded = Readings([sequence |-> <<>>, len |-> 0], supplied).readings

\* C3: num_samples of a call is floor((r + n) / 4), r the remainder length
\* carried into the call and n the chunk length.
C3_SampleCount ==
    (IsDecode /\ Returned /\ Populated(modifiers)) =>
        call.num_samples = (call.rem0.len + Len(call.buf)) \div 4

\* C4: when the carried remainder and the chunk total fewer than 4 bytes, no
\* word is decoded and the remainder becomes the old remainder followed by
\* the chunk.
C4_ShortChunkAccumulates ==
    (IsDecode /\ Returned /\ Populated(modifiers) /\ CarriedWellFormed
       /\ call.rem0.len + Len(call.buf) < 4) =>
        /\ call.num_samples = 0
        /\ remainder.sequence = call.rem0.sequence \o call.buf

\* C5: a call with an empty chunk decodes no word and leaves the remainder
\* sequence and the remainder length unchanged.
C5_EmptyChunkNoOp ==
    (IsDecode /\ Returned /\ Populated(modifiers) /\ call.buf = <<>>) =>
        /\ call.num_samples = 0
        /\ remainder = call.rem0

\* C6: remainder["len"] is between 0 and 3, is the number of bytes of
\* remainder["sequence"], and remainder["sequence"] is the undecoded tail of
\* the bytes supplied so far.
C6_RemainderInvariant ==
    Populated(modifiers) =>
    /\ remainder.len \in 0..3
    /\ remainder.len = Len(remainder.sequence)
    /\ remainder.sequence =
          Slice(supplied, Len(supplied) - (Len(supplied) % 4), Len(supplied))

\* The range field of a 32-bit word <<hi, lo>>: bits 14..16.
RangeField(w) == (w[2] \div 16384) + 4 * (w[1] % 2)

\* C7: with a fully populated table, the range _handle_raw_data passes to
\* the lookup is min((word >> 14) & 7, 4) and the conversion raises no error.
C7_RangeClamped ==
    (call.op = "_handle_raw_data" /\ Populated(modifiers)) =>
        /\ call.conv.range = Min(RangeField(call.conv.word), 4)
        /\ call.conv.err = "none"

\* C8: while any per-range constant of the table is unpopulated, no call of
\* average_of_sampling_period returns a value.
C8_IncompleteTableAborts ==
    (IsDecode /\ Returned) => Populated(modifiers)

\* C9: at every conversion, the regulator-voltage term get_adc_result uses
\* is the voltage last commanded with set_source_voltage, 0 if none was.
C9_RegulatorVoltage ==
    IsDecode =>
        \A i \in 1..Len(call.convs) :
            call.convs[i].err = "none" =>
                call.convs[i].vdd = IF commanded = None THEN 0 ELSE commanded[1]

\* C10: the fields extracted from a word <<hi, lo>> are rawAdc =
\* (word & 0x3FFF) * 4, the range field (word >> 14) & 7 and logicBits =
\* (word >> 24) & 0xFF, the logic mask being the negative -0x1000000.
C10_Bitfields ==
    /\ MEAS_LOGIC.mask = <<-256, 0>>
    /\ call.op = "_handle_raw_data" =>
        /\ call.conv.word = word
        /\ call.conv.adc = (word[2] % 16384) * 4
        /\ call.conv.field = RangeField(word)
        /\ call.conv.bits = (word[1] \div 256) % 256

\* C10, the case of the example: range 2, raw count 100, logic bits 0xAB,
\* with logic bits whose top bit is set.
C10_Witness ==
    /\ call.op = "_handle_raw_data"
    /\ word = Word(2, 100, 171, 0)
    /\ call.conv.field = 2
    /\ call.conv.adc = 400
    /\ call.conv.bits = 171

\* The range-0 constants of the end-to-end scenario: R = 1.0, GI = 1,
\* UG = 1, O = GS = S = I = 0.
ScenarioConstants(mods) ==
    /\ mods["R"]["0"] = <<1>> /\ mods["GI"]["0"] = <<1>> /\ mods["UG"]["0"] = <<1>>
    /\ mods["O"]["0"] = <<0>> /\ mods["GS"]["0"] = <<0>>
    /\ mods["S"]["0"] = <<0>> /\ mods["I"]["0"] = <<0>>
\* The most recent call converted the scenario's sample: range 0, post-scaling
\* rawAdc 16384, regulator voltage 0, on the scenario's constants.
ScenarioConverted ==
    /\ call.op = "_handle_raw_data"
    /\ ScenarioConstants(modifiers)
    /\ RangeField(word) = 0
    /\ word[2] % 16384 = 4096
    /\ current_vdd = 0

\* C11 as stated: the scenario's sample is reported as 180.0 microamps.
C11_Scenario180 ==
    ScenarioConverted =>
        /\ call.outcome = "returned"
        /\ call.conv.analog_value = Float(180)

\* C11, amended: the scenario's sample is converted from rawAdc 16384 with
\* the multiplier 1.8/163840 to 0.18 A and reported as 180000 microamps.
C11_Scenario180000 ==
    /\ adc_mult = Frac(18, 1638400)
    /\ ScenarioConverted =>
        /\ call.outcome = "returned"
        /\ call.conv.adc = 16384
        /\ call.conv.result = Frac(18, 100)
        /\ call.conv.analog_value = Float(180000)

C11_Witness ==
    /\ ScenarioConverted
    /\ word = Word(0, 4096, 171, 0)
    /\ call.conv.analog_value = Float(180000)
    /\ rolling_avg = Frac(18, 100)

\* Two conversions were given the same range and ADC value and read the
\* same constants of the table and the same regulator voltage.
SameInputs(a, b) ==
    /\ a.range = b.range /\ a.adc_value = b.adc_value
    /\ a.mods = b.mods /\ a.vdd = b.vdd

\* C12: any two conversions of the same (range, rawAdc) pair on the same
\* table and regulator voltage returned the same value, whatever the
\* rolling-average fields, the remainder and the mode were when each was made.
C12_Deterministic ==
    \A a, b \in converted : SameInputs(a, b) => a.value = b.value

\* C12: the same pair was converted with different rolling-average fields,
\* different modes and different remainders.
C12_Witness ==
    \E a, b \in converted :
        /\ SameInputs(a, b)
        /\ a.adc_value = 16384
        /\ a.rolling_avg = <<>> /\ b.rolling_avg # <<>> /\ b.rolling_avg # b.value
        /\ a.mode # b.mode
        /\ a.remainder # b.remainder

\* C13: a call of get_adc_result that returns sets rolling_avg and
\* rolling_avg4 to the value it returns and changes no other field of the
\* object (table, regulator voltage, mode, remainder, prev_ fields); a call
\* that raises changes no field at all.
C13_ConversionFrame ==
    [][call'.op = "get_adc_result" =>
         /\ modifiers' = modifiers /\ current_vdd' = current_vdd
         /\ mode' = mode /\ remainder' = remainder /\ prev' = prev
         /\ IF call'.outcome = "returned"
            THEN rolling_avg' = call'.conv.result /\ rolling_avg4' = call'.conv.result
            ELSE diag' = diag]_vars

\* C13: a conversion returned on an object whose mode was chosen, whose
\* remainder was written by the decoder and whose rolling average held
\* another value before.
C13_Witness ==
    /\ call.op = "get_adc_result" /\ call.outcome = "returned"
    /\ rolling_avg = call.conv.result /\ rolling_avg4 = call.conv.result
    /\ mode = SOURCE_MODE
    /\ remainder.len # 0
    /\ \E c \in converted : c.value = call.conv.result /\ c.rolling_avg \notin {<<>>, c.value}

\* C14: every 4-byte group b0, b1, b2, b3 a decoder call takes from the
\* stream is handed to _handle_raw_data as the word b0 + 256*b1 + 65536*b2 +
\* 16777216*b3, that is <<b2 + 256*b3, b0 + 256*b1>> in halves.
C14_LittleEndian ==
    IsDecode =>
        \A i \in 1..Len(call.convs) :
            LET b == call.readings[i]
            IN Len(b) = 4 =>
                 call.convs[i].word = <<b[3] + 256 * b[4], b[1] + 256 * b[2]>>

\* C14: a call decoded the groups 01 02 03 04 and 05 06 07 08.
C14_Witness ==
    /\ IsDecode /\ Returned
    /\ call.readings = <<<<1, 2, 3, 4>>, <<5, 6, 7, 8>>>>
    /\ call.convs[1].word = <<1027, 513>>
    /\ call.convs[2].word = <<2055, 1541>>

\* C15: set_source_voltage(mV) writes the one command (0x0d, b1, b2) with
\* 256 * b1 + b2 = min(max(mV, 800), 5000), b1 in 3..19 and b2 in 0..255;
\* 800 mV and anything lower gives (3, 32).
C15_RegulatorBytes ==
    call.op = "set_source_voltage" =>
        /\ call.outcome = "returned"
        /\ Len(call.written) = 1
        /\ Len(call.written[1]) = 3
        /\ LET mV == call.arg[1]
               b_1 == call.written[1][2]
               b_2 == call.written[1][3]
           IN /\ call.written[1][1] = 13
              /\ 256 * b_1 + b_2 = Min(Max(mV, 800), 5000)
              /\ b_1 \in 3..19
              /\ b_2 \in 0..255
              /\ mV <= 800 => <<b_1, b_2>> = <<3, 32>>

\* C15: the highest voltage was asked for with a value far above it.
C15_Witness ==
    /\ call.op = "set_source_voltage"
    /\ call.arg = <<70000>>
    /\ call.written = <<<<13, 19, 136>>>>

\* C16: mode is None on the constructed object; use_ampere_meter makes it
\* AMPERE_MODE and writes (0x11, 1), use_source_meter makes it SOURCE_MODE
\* and writes (0x11, 2), and every other call leaves it as it was.
C16_Mode ==
    /\ mode = "None"
    /\ [][(call'.op = "use_ampere_meter" =>
              (mode' = AMPERE_MODE /\ call'.written = <<<<17, 1>>>>))
          /\ (call'.op = "use_source_meter" =>
              (mode' = SOURCE_MODE /\ call'.written = <<<<17, 2>>>>))
          /\ (call'.op \notin {"use_ampere_meter", "use_source_meter"} =>
              mode' = mode)]_vars

\* C16: the ampere meter was chosen after a chunk was decoded in source
\* mode.
C16_Witness ==
    /\ call.op = "use_ampere_meter"
    /\ mode = AMPERE_MODE
    /\ call.written = <<<<17, 1>>>>
    /\ \E c \in converted : c.mode = SOURCE_MODE

\* C17: no call of average_of_sampling_period divides by zero when it
\* takes the mean, and every call that returns has counted at least one
\* sample and returns a mean, whatever the lengths of the chunk and of the
\* carried remainder.
C17_AtLeastOneSample ==
    IsDecode =>
        /\ call.outcome # "ZeroDivisionError"
        /\ Returned => (call.num_samples >= 1 /\ call.mean # None)

\* C17: a call returned on an empty chunk with a negative carried length.
C17_Witness ==
    /\ IsDecode /\ Returned
    /\ call.buf = <<>>
    /\ call.rem0.len < 0
    /\ call.num_samples = 1
    /\ call.mean # None

\* C18: after a call of average_of_sampling_period in which a conversion
\* raised, the remainder sequence and the remainder length are those the
\* call was made with.
C18_RaiseKeepsRemainder ==
    (IsDecode /\ ~Returned) => remainder = call.rem0

\* C18: a conversion raised in a call made with a non-empty chunk on a
\* remainder written by an earlier call.
C18_Witness ==
    /\ IsDecode
    /\ call.outcome \in {"KeyError", "TypeError"}
    /\ call.rem0.len # 0
    /\ call.buf # <<>>
    /\ call.num_samples >= 1
    /\ remainder = call.rem0

\* The reads of a script that hold "END".
EndReads(reads) == {i \in 1..5 : reads[i].end}

\* C19: get_modifiers writes the one command (0x19) and makes at most 5
\* reads.  If no read holds "END" it raises and changes no constant;
\* otherwise it stops at the first read that does and stores the rows of
\* that read alone, every other constant staying as it was.
C19_GetModifiers ==
    [][call'.op = "get_modifiers" =>
         LET reads == call'.reads
             hits == EndReads(reads)
         IN /\ call'.written = <<<<25>>>>
            /\ call'.nreads <= 5
            /\ hits = {} =>
                  (call'.outcome = "AttributeError" /\ modifiers' = modifiers)
            /\ hits # {} =>
                  LET first == CHOOSE i \in hits : \A j \in hits : i <= j
                      rows == reads[first].rows
                  IN /\ call'.outcome = "returned"
                     /\ call'.nreads = first
                     /\ \A key \in Scalars :
                           modifiers'[key] = IF key \in DOMAIN rows
                                             THEN <<rows[key]>> ELSE modifiers[key]
                     /\ \A key \in PerRange : \A ind \in RangeKeys :
                           modifiers'[key][ind] =
                              IF (key \o ind) \in DOMAIN rows
                              THEN <<rows[key \o ind]>> ELSE modifiers[key][ind]]_vars

\* C19: the block came in two reads; the rows of the first were not stored.
C19_Witness ==
    /\ call.op = "get_modifiers" /\ call.outcome = "returned"
    /\ call.reads[1] = HeadText /\ call.reads[2] = TailText
    /\ call.nreads = 2
    /\ modifiers["R"]["0"] = None
    /\ modifiers["O"]["0"] = <<0>>

====
